---- MODULE Spec2Model ----
(***************************************************************************)
(* TravelApi: the ownership-scoped service layer over the three tables     *)
(* travel_plans, route_options and points_of_interest.                     *)
(*                                                                         *)
(* Each service operation is one action.  A storage statement may fail;    *)
(* the action's `fault` input names the statement that fails ("none" when  *)
(* every statement succeeds).  resp is the outcome of the last call.       *)
(***************************************************************************)
EXTENDS Integers, FiniteSets, Sequences, TLC

VARIABLES travel_plans, route_options, points_of_interest,
          foreign_keys, plan_seq, route_seq, poi_seq, resp,
          created, deleted,
          users, user_seq, clock, jwt_leeway, issued, auth,
          http, calls

vars == <<travel_plans, route_options, points_of_interest,
          foreign_keys, plan_seq, route_seq, poi_seq, resp, created, deleted,
          users, user_seq, clock, jwt_leeway, issued, auth, http, calls>>

\* the state of registration, login and token validation: the users table,
\* the wall clock in seconds, the expiry leeway of the token library (fixed
\* at the first validation), the tokens handed out by login (history) and the
\* outcome of the last auth call or request
auth_vars == <<users, user_seq, clock, jwt_leeway, issued, auth>>

\* history: created holds [id, user_id, caller] of every plan row ever
\* inserted (caller: the user whose create_travel_plan call inserted it),
\* deleted the ids of the plans delete_travel_plan reported as deleted
ghost == <<created, deleted>>

tables == <<travel_plans, route_options, points_of_interest>>

(* ----------------------------- bounds ---------------------------------- *)
\* number of travel plan ids Uuid::new_v4 hands out
MaxPlans == 2
\* number of route option ids Uuid::new_v4 hands out
MaxRoutes == 2
\* largest value of Utc::now()
MaxTime == 1
\* largest count passed to generate_route_options
MaxCount == 2
\* the counts over which the arithmetic of poi_count is checked
MaxArith == 9

Users == {"alice", "bob"}
PlanIds == 1..MaxPlans
RouteIds == 1..MaxRoutes
Times == 0..MaxTime
CoreTimes == {0}
None == "None"

(* --------------------------- input domains ----------------------------- *)
\* NewTravelPlan bodies (user_id is added by the caller of the action)
NewPlanFields ==
  { [name |-> "Trip", description |-> None, start_location |-> "NYC",
     end_location |-> "LA", start_date |-> None, end_date |-> None] }

\* UpdateTravelPlan bodies: None marks an absent field
NoUpdate ==
  [name |-> None, description |-> None, start_location |-> None,
   end_location |-> None, start_date |-> None, end_date |-> None]

UpdateA ==
  [NoUpdate EXCEPT !.name = "Tour", !.description = "d1", !.start_date = "day1"]

UpdateB ==
  [NoUpdate EXCEPT !.start_location = "BOS", !.end_location = "SF",
                   !.end_date = "day2"]

UpdateAll ==
  [name |-> "Hike", description |-> "d2", start_location |-> "SEA",
   end_location |-> "MIA", start_date |-> "day3", end_date |-> "day4"]

UpdateInputs == {NoUpdate, UpdateA, UpdateB, UpdateAll}
\* the update of Spec and SpecFault names no field: id and user_id, on which
\* the ownership checks rest, are changed by no update (SpecFields)
CoreUpdates == {NoUpdate}

\* values the random source of the generator draws from
RandCoords == {"c1"}
RandWaypoints == { <<"w1">> }
RandDistance == {10}
RandDuration == {30}
Categories == {"Museum"}
RandIndex == {0}

(* ------------------------------ storage -------------------------------- *)
\* the latest timestamp a stored row carries; Utc::now() never runs behind it
LastStamp ==
  LET S == {p.created_at : p \in travel_plans} \cup
           {p.updated_at : p \in travel_plans} \cup
           {r.created_at : r \in route_options}
  IN  IF S = {} THEN 0 ELSE CHOOSE m \in S : \A x \in S : x <= m

Now(T) == { t \in T : t >= LastStamp }

\* TravelPlan::find_by_id: the rows with that primary key (at most one)
TravelPlan_find_by_id(id) == { p \in travel_plans : p.id = id }

\* TravelPlan::find_by_user_id
TravelPlan_find_by_user_id(user_id) == { p \in travel_plans : p.user_id = user_id }

\* mutant: the lookup compares the parent plan's id instead of the route's
RouteOption_find_by_id_parent(id) == { r \in route_options : r.travel_plan_id = id }

\* RouteOption::find_by_id
RouteOption_find_by_id(id) == { r \in route_options : r.id = id }

\* RouteOption::find_by_travel_plan_id
RouteOption_find_by_travel_plan_id(plan_id) ==
  { r \in route_options : r.travel_plan_id = plan_id }

\* mutant: the WHERE route_option_id = ?1 clause is missing
PointOfInterest_find_by_route_option_id_all(route_id) == points_of_interest

\* PointOfInterest::find_by_route_option_id
PointOfInterest_find_by_route_option_id(route_id) ==
  { q \in points_of_interest : q.route_option_id = route_id }

\* TravelPlan::create: the inserted row carries new_plan.user_id
TravelPlan_create(new_plan, id, now) ==
  [id |-> id, user_id |-> new_plan.user_id, name |-> new_plan.name,
   description |-> new_plan.description,
   start_location |-> new_plan.start_location,
   end_location |-> new_plan.end_location,
   start_date |-> new_plan.start_date, end_date |-> new_plan.end_date,
   created_at |-> now, updated_at |-> now]

\* mutant: an absent description overwrites the stored one
TravelPlan_update_clears(self, update, now) ==
  [self EXCEPT
     !.name = IF update.name # None THEN update.name ELSE @,
     !.description = update.description,
     !.start_location = IF update.start_location # None
                        THEN update.start_location ELSE @,
     !.end_location = IF update.end_location # None
                      THEN update.end_location ELSE @,
     !.start_date = IF update.start_date # None THEN update.start_date ELSE @,
     !.end_date = IF update.end_date # None THEN update.end_date ELSE @,
     !.updated_at = now]

\* mutant: a present start_location takes the stored end_location
TravelPlan_update_shifts(self, update, now) ==
  [self EXCEPT
     !.name = IF update.name # None THEN update.name ELSE @,
     !.description = IF update.description # None THEN update.description ELSE @,
     !.start_location = IF update.start_location # None
                        THEN self.end_location ELSE @,
     !.end_location = IF update.end_location # None
                      THEN update.end_location ELSE @,
     !.start_date = IF update.start_date # None THEN update.start_date ELSE @,
     !.end_date = IF update.end_date # None THEN update.end_date ELSE @,
     !.updated_at = now]

\* TravelPlan::update: the clone of self with the present fields applied
TravelPlan_update(self, update, now) ==
  [self EXCEPT
     !.name = IF update.name # None THEN update.name ELSE @,
     !.description = IF update.description # None THEN update.description ELSE @,
     !.start_location = IF update.start_location # None
                        THEN update.start_location ELSE @,
     !.end_location = IF update.end_location # None
                      THEN update.end_location ELSE @,
     !.start_date = IF update.start_date # None THEN update.start_date ELSE @,
     !.end_date = IF update.end_date # None THEN update.end_date ELSE @,
     !.updated_at = now]

\* mutant: the UPDATE statement also writes the user_id column
TravelPlan_update_rows_owner(rows, u) ==
  { IF r.id = u.id
    THEN [r EXCEPT !.name = u.name, !.user_id = "bob",
                   !.updated_at = u.updated_at]
    ELSE r : r \in rows }

\* the UPDATE statement of TravelPlan::update: seven columns of the row
\* with self's id are written, user_id and created_at are not
TravelPlan_update_rows(rows, u) ==
  { IF r.id = u.id
    THEN [r EXCEPT !.name = u.name, !.description = u.description,
                   !.start_location = u.start_location,
                   !.end_location = u.end_location,
                   !.start_date = u.start_date, !.end_date = u.end_date,
                   !.updated_at = u.updated_at]
    ELSE r : r \in rows }

\* FOREIGN KEY (travel_plan_id) REFERENCES travel_plans (id): with
\* enforcement on, a parent row that is still referenced cannot be deleted
PlanReferenced(id) == \E r \in route_options : r.travel_plan_id = id

\* mutant: the DELETE keeps the named row and removes the others
TravelPlan_delete_others(rows, id) == { p \in rows : p.id = id }

\* TravelPlan::delete: one DELETE on travel_plans, nothing else
TravelPlan_delete(rows, id) == { p \in rows : p.id # id }

\* RouteOption::create: the inserted row
RouteOption_create(new_route, id, now) ==
  [id |-> id, travel_plan_id |-> new_route.travel_plan_id,
   name |-> new_route.name, description |-> new_route.description,
   distance |-> new_route.distance, duration |-> new_route.duration,
   start_coordinates |-> new_route.start_coordinates,
   end_coordinates |-> new_route.end_coordinates,
   waypoints |-> new_route.waypoints, created_at |-> now]

\* mutant: the route's parent is not compared with the plan id
RouteBelongsTo_any(route, plan_id) == TRUE

\* the parent cross-check of get_route_option_by_id and delete_route_option
RouteBelongsTo(route, plan_id) == route.travel_plan_id = plan_id

\* RouteOption::delete: one DELETE on route_options
RouteOption_delete(rows, id) == { r \in rows : r.id # id }

\* PointOfInterest::create: the inserted row
PointOfInterest_create(new_poi, id, now) ==
  [id |-> id, route_option_id |-> new_poi.route_option_id,
   name |-> new_poi.name, description |-> new_poi.description,
   category |-> new_poi.category, coordinates |-> new_poi.coordinates,
   created_at |-> now]

\* PointOfInterest::delete_by_route_option_id: delete by parent route id
PointOfInterest_delete_by_route_option_id(rows, route_id) ==
  { q \in rows : q.route_option_id # route_id }

(* ----------------------------- generator ------------------------------- *)
\* what the random source yields for one batch of routes
RouteDraws(count) ==
  [start : RandCoords, end : RandCoords,
   per_route : [0..(count - 1) ->
                  [distance : RandDistance, duration : RandDuration,
                   waypoints : RandWaypoints]]]

\* what the random source yields for the points of interest of one route
PoiDraws(count) ==
  [0..(count - 1) ->
     [category : Categories, name_adj : RandIndex, desc_adj : RandIndex,
      waypoint : RandIndex]]

\* the description template of route i
RouteDescription(i, start_location, end_location) ==
  <<CASE i % 3 = 0 -> "Scenic route"
      [] i % 3 = 1 -> "Fastest route"
      [] OTHER -> "Alternative route", start_location, end_location>>

\* RouteOption::generate_random_options: the rows created for a plan row
generate_random_options(plan, count, first_id, now, d) ==
  { RouteOption_create(
      [travel_plan_id |-> plan.id,
       name |-> <<"Route Option", i + 1>>,
       description |-> RouteDescription(i, plan.start_location, plan.end_location),
       distance |-> d.per_route[i].distance,
       duration |-> d.per_route[i].duration,
       start_coordinates |-> d.start, end_coordinates |-> d.end,
       waypoints |-> d.per_route[i].waypoints],
      first_id + i, now) : i \in 0..(count - 1) }

\* the coordinates of the i-th of count points of interest of a route
PoiCoordinates(route, i, count, pick) ==
  IF i = 0 THEN route.start_coordinates
  ELSE IF i = count - 1 THEN route.end_coordinates
  ELSE route.waypoints[(pick % Len(route.waypoints)) + 1]

\* PointOfInterest::generate_random_pois: the rows created for a route row
generate_random_pois(route, count, first_id, now, d) ==
  { PointOfInterest_create(
      [route_option_id |-> route.id,
       name |-> <<d[i].category, d[i].name_adj>>,
       description |-> <<d[i].category, d[i].desc_adj>>,
       category |-> d[i].category,
       coordinates |-> PoiCoordinates(route, i, count, d[i].waypoint)],
      first_id + i, now) : i \in 0..(count - 1) }

\* mutant: the requested route count is used as the number of points
PoiCount_is_count(count) == count

\* the number of points of interest generate_route_options asks for per route
PoiCount(count) == 2 + (count % 4)

(* ----------------------------- responses ------------------------------- *)
Resp(op, caller, plan_id, route_id, input, fault, result, plans, routes, n) ==
  [op |-> op, caller |-> caller, plan_id |-> plan_id, route_id |-> route_id,
   input |-> input, fault |-> fault, result |-> result,
   plans |-> plans, routes |-> routes, n |-> n]

TravelPlanDto(plan, has_routes) ==
  [travel_plan |-> plan, has_routes_generated |-> has_routes]

RouteOptionWithPois(route, pois) ==
  [route |-> route, points_of_interest |-> pois]

\* mutant: every plan error is wrapped as NotFound
FromTravelPlanError_not_found(e) == "TravelPlanError(NotFound)"

\* impl From<TravelPlanError> for RouteOptionError
FromTravelPlanError(e) ==
  CASE e = "NotFound" -> "TravelPlanError(NotFound)"
    [] e = "Unauthorized" -> "TravelPlanError(Unauthorized)"
    [] OTHER -> "TravelPlanError(DatabaseError)"

\* the storage statements of each operation that can fail
NoFaults == {"none"}
GetFaults == {"none", "find_by_id", "find_by_travel_plan_id"}
ListFaults == {"none", "find_by_user_id", "find_by_travel_plan_id"}
CreateFaults == {"none", "insert"}
UpdateFaults == GetFaults \cup {"update"}
DeleteFaults == GetFaults \cup {"delete"}
GenerateFaults == GetFaults \cup {"insert_route", "insert_poi"}
RouteListFaults == GetFaults \cup {"find_routes", "find_pois"}
RouteGetFaults == GetFaults \cup {"find_route", "find_pois"}
RouteDeleteFaults == GetFaults \cup {"find_route", "delete_pois", "delete_route"}
RouteDeleteAllFaults == GetFaults \cup {"find_routes", "delete_pois", "delete_routes"}

\* mutant: a lookup error is taken for an absent row
get_travel_plan_by_id_error_as_absent(plan_id, user_id, fault) ==
  LET found == IF fault = "find_by_id" THEN {}
               ELSE TravelPlan_find_by_id(plan_id)
      has_routes == IF fault = "find_by_travel_plan_id" THEN FALSE
                    ELSE RouteOption_find_by_travel_plan_id(plan_id) # {}
  IN  IF found = {}
        THEN [result |-> "NotFound", plans |-> {}]
      ELSE IF \E p \in found : p.user_id # user_id
        THEN [result |-> "Unauthorized", plans |-> {}]
      ELSE [result |-> "Ok",
            plans |-> { TravelPlanDto(p, has_routes) : p \in found }]

\* TravelPlanService::get_travel_plan_by_id, as [result, plans]
get_travel_plan_by_id(plan_id, user_id, fault) ==
  LET found == TravelPlan_find_by_id(plan_id)
      has_routes == IF fault = "find_by_travel_plan_id" THEN FALSE
                    ELSE RouteOption_find_by_travel_plan_id(plan_id) # {}
  IN  IF fault = "find_by_id"
        THEN [result |-> "DatabaseError", plans |-> {}]
      ELSE IF found = {}
        THEN [result |-> "NotFound", plans |-> {}]
      ELSE IF \E p \in found : p.user_id # user_id
        THEN [result |-> "Unauthorized", plans |-> {}]
      ELSE [result |-> "Ok",
            plans |-> { TravelPlanDto(p, has_routes) : p \in found }]

(* --------------------------- route handlers ---------------------------- *)
\* texts of rusqlite errors: e.to_string() of a failed statement
ErrorTexts == {"disk I/O error", "database is locked"}
\* the text of the error a rejected DELETE of a referenced row carries
ConstraintText == "FOREIGN KEY constraint failed"

\* an HTTP response: the status, the pieces of ErrorResponse.error in order
\* (empty on success) and the error texts written to the log by error!
Http(status, error, log) == [status |-> status, error |-> error, log |-> log]

TravelPlanOps ==
  {"get_travel_plans", "get_travel_plan_by_id", "create_travel_plan",
   "update_travel_plan", "delete_travel_plan"}

\* the service results that stand for a failed storage statement
StorageFailures == {"DatabaseError", "TravelPlanError(DatabaseError)"}

\* the handlers of routes/travel_plan.rs: the response for a service result,
\* e being the text of the storage error when there is one
TravelPlanRoute(op, result, e) ==
  CASE result = "Ok" ->
         Http(CASE op = "create_travel_plan" -> 201
                [] op = "delete_travel_plan" -> 204
                [] OTHER -> 200, <<>>, {})
    [] result = "NotFound" ->
         Http(404, IF op = "create_travel_plan" THEN <<"Resource not found">>
                   ELSE <<"Travel plan not found">>, {})
    [] result = "Unauthorized" ->
         Http(403, <<"You don't have permission to ",
                     CASE op = "create_travel_plan" -> "create"
                       [] op = "update_travel_plan" -> "update"
                       [] op = "delete_travel_plan" -> "delete"
                       [] OTHER -> "access", " this travel plan">>, {})
    [] OTHER -> Http(500, <<"Database error: ", e>>, {e})

\* the text of the catch-all Err(_) arm of each handler of routes/route_option.rs
RouteOptionFallback(op) ==
  CASE op = "get_route_options" -> "Failed to fetch route options"
    [] op = "generate_route_options" -> "Failed to generate route options"
    [] op = "get_route_option_by_id" -> "Failed to fetch route option"
    [] op = "delete_route_option" -> "Failed to delete route option"
    [] OTHER -> "Failed to delete route options"

\* the handlers of routes/route_option.rs; n is the number of rows the
\* service reports as deleted, logged whether the service logs the error
RouteOptionRoute(op, result, n, e, logged) ==
  CASE result = "Ok" ->
         IF op = "delete_route_option" /\ n = 0
         THEN Http(404, <<"Route option not found">>, {})
         ELSE Http(200, <<>>, {})
    [] result = "TravelPlanError(NotFound)" ->
         Http(404, <<"Travel plan not found">>, {})
    [] result = "TravelPlanError(Unauthorized)" ->
         Http(403, <<"You don't have permission to access this travel plan">>, {})
    [] result = "RouteNotFound" -> Http(404, <<"Route option not found">>, {})
    [] result = "InvalidRouteOption" ->
         Http(400, <<"Route option does not belong to the specified travel plan">>,
              {})
    [] result = "DatabaseError" ->
         Http(500, <<"Database error: ", e>>, IF logged THEN {e} ELSE {})
    [] OTHER -> Http(500, <<RouteOptionFallback(op)>>, {e})

\* the error texts a failed call may carry: one of the engine's texts when a
\* statement fails, the constraint's text when a DELETE is rejected
ErrorTextOf(result, fault) ==
  IF result \notin StorageFailures THEN {""}
  ELSE IF fault = "none" THEN {ConstraintText}
  ELSE ErrorTexts

\* the handler turns the service result of the call into the response
Deliver ==
  \E e \in ErrorTextOf(resp'.result, resp'.fault) :
    http' = IF resp'.op \in TravelPlanOps
            THEN TravelPlanRoute(resp'.op, resp'.result, e)
            ELSE RouteOptionRoute(resp'.op, resp'.result, resp'.n, e,
                   ~(resp'.op = "delete_all_route_options"
                     /\ resp'.fault = "find_routes"))

(* ------------------------- users and tokens ---------------------------- *)
\* the rows the users table may hold, the tokens login may hand out
MaxUsers == 2
MaxTokens == 1

JWT_SECRET == "secret_key_for_jwt_token_generation"
TOKEN_EXPIRATION_HOURS == 24
\* expires_in, and the lifetime Claims::new adds to the issue time, in seconds
TokenTtl == TOKEN_EXPIRATION_HOURS * 3600

Usernames == {"ann", "ben"}
Passwords == {"pw1", "pw2"}
Emails == {"a@x", "b@x"}
Salts == {"s1"}
UserIds == 1..MaxUsers

\* the expiry leeway of Validation::default(): 0 or 60 seconds, by the
\* version of the token library the build links
Leeways == {0, 60}

\* the instants at which calls are made: an issue time, the expiry of a
\* token issued then, and the instants around the end of the longer leeway
AuthTimes == {0, TokenTtl, TokenTtl + 60, TokenTtl + 61}

\* bcrypt::hash: a salted digest of the password
bcrypt_hash(password, salt) ==
  [scheme |-> "bcrypt", salt |-> salt, digest |-> <<"digest", salt, password>>]

\* bcrypt::verify: recompute the digest with the stored salt
bcrypt_verify(password, password_hash) ==
  password_hash.digest = <<"digest", password_hash.salt, password>>

\* mutant: the lookup finds no row
User_find_by_username_none(username) == {}

\* User::find_by_username
User_find_by_username(username) == { u \in users : u.username = username }

\* User::create: the row inserted for new_user
User_create(new_user, id, salt, now) ==
  [id |-> id, username |-> new_user.username,
   password_hash |-> bcrypt_hash(new_user.password, salt),
   email |-> new_user.email, created_at |-> now]

\* the UNIQUE constraints of the users table reject the insert
UsersUniqueViolated(new_user) ==
  \E u \in users : u.username = new_user.username \/ u.email = new_user.email

\* mutant: the password is not compared
User_authenticate_any_password(credentials) ==
  User_find_by_username(credentials.username)

\* User::authenticate: the user of that name whose hash verifies the password
User_authenticate(credentials) ==
  { u \in User_find_by_username(credentials.username) :
      bcrypt_verify(credentials.password, u.password_hash) }

\* Claims::new
Claims_new(user_id, username, now) ==
  [sub |-> user_id, username |-> username, exp |-> now + TokenTtl, iat |-> now]

\* the HMAC of header and claims under key
Mac(key, alg, claims) == <<"hmac", key, alg, claims>>

\* jsonwebtoken::encode: header, claims and signature
encode(alg, claims, key) ==
  [kind |-> "jwt", alg |-> alg, claims |-> claims,
   signature |-> Mac(key, alg, claims)]

\* a token text that is not three segments of a JWT
Malformed(kind) ==
  [kind |-> kind, alg |-> "", claims |-> Claims_new(0, "", 0), signature |-> <<>>]

\* generate_token
generate_token(user, now) ==
  [token |-> encode("HS256", Claims_new(user.id, user.username, now), JWT_SECRET),
   token_type |-> "Bearer", expires_in |-> TokenTtl]

\* mutant: the signature is not verified
validate_token_unsigned(token, now, leeway) ==
  IF token.kind # "jwt"
    THEN [result |-> "InvalidToken", claims |-> {}]
  ELSE IF token.claims.exp < now - leeway
    THEN [result |-> "ExpiredSignature", claims |-> {}]
  ELSE [result |-> "Ok", claims |-> {token.claims}]

\* validate_token: jsonwebtoken::decode under Validation::default() (HS256,
\* exp validated with the library's leeway: expired when exp < now - leeway)
validate_token(token, now, leeway) ==
  IF token.kind # "jwt"
    THEN [result |-> "InvalidToken", claims |-> {}]
  ELSE IF token.alg # "HS256"
    THEN [result |-> "InvalidAlgorithm", claims |-> {}]
  ELSE IF token.signature # Mac(JWT_SECRET, token.alg, token.claims)
    THEN [result |-> "InvalidSignature", claims |-> {}]
  ELSE IF token.claims.exp < now - leeway
    THEN [result |-> "ExpiredSignature", claims |-> {}]
  ELSE [result |-> "Ok", claims |-> {token.claims}]

\* the Authorization header of a request: absent, not text, or a scheme, a
\* separator and the rest of the value
NoHeader ==
  [present |-> FALSE, utf8 |-> FALSE, scheme |-> "", sep |-> "",
   token |-> Malformed("empty")]
NotTextHeader == [NoHeader EXCEPT !.present = TRUE]
Schemes == {"Bearer", "Basic"}
Separators == {" ", ""}
TextHeaders(tokens) ==
  [present : {TRUE}, utf8 : {TRUE}, scheme : Schemes, sep : Separators,
   token : tokens]

\* what a client may present: a token login handed out, that token with its
\* expiry pushed back (the signature left as it was, re-signed under another
\* key, or declared unsigned), and text that is no JWT
Altered(t) ==
  LET claims == [t.claims EXCEPT !.exp = @ + TokenTtl]
  IN  { [t EXCEPT !.claims = claims],
        encode("HS256", claims, "another_secret"),
        [kind |-> "jwt", alg |-> "none", claims |-> claims, signature |-> <<>>] }

PresentedTokens ==
  issued \cup UNION { Altered(t) : t \in issued }
         \cup { Malformed("garbage"), Malformed("empty") }

\* the outcome of the AuthenticatedUser extractor
Extracted(result, message, identity, cause) ==
  [result |-> result, message |-> message, identity |-> identity,
   cause |-> cause]

\* mutant: the scheme is not checked
from_request_any_scheme(header, now, leeway) ==
  IF ~header.present
    THEN Extracted("Unauthorized", "No authorization header found", {}, "none")
  ELSE IF ~header.utf8
    THEN Extracted("Unauthorized", "Invalid authorization header", {}, "none")
  ELSE LET v == validate_token(header.token, now, leeway)
       IN  IF v.result = "Ok"
           THEN Extracted("Ok", "",
                  { [user_id |-> c.sub, username |-> c.username] : c \in v.claims },
                  "none")
           ELSE Extracted("Unauthorized", "Invalid token", {}, v.result)

\* mutant: the rejection carries the library's error
from_request_leaks_cause(header, now, leeway) ==
  IF ~header.present
    THEN Extracted("Unauthorized", "No authorization header found", {}, "none")
  ELSE IF ~header.utf8
    THEN Extracted("Unauthorized", "Invalid authorization header", {}, "none")
  ELSE IF ~(header.scheme = "Bearer" /\ header.sep = " ")
    THEN Extracted("Unauthorized", "Invalid authorization scheme", {}, "none")
  ELSE LET v == validate_token(header.token, now, leeway)
       IN  IF v.result = "Ok"
           THEN Extracted("Ok", "",
                  { [user_id |-> c.sub, username |-> c.username] : c \in v.claims },
                  "none")
           ELSE Extracted("Unauthorized", v.result, {}, v.result)

\* impl FromRequest for AuthenticatedUser: cause is what the error log gets
from_request(header, now, leeway) ==
  IF ~header.present
    THEN Extracted("Unauthorized", "No authorization header found", {}, "none")
  ELSE IF ~header.utf8
    THEN Extracted("Unauthorized", "Invalid authorization header", {}, "none")
  ELSE IF ~(header.scheme = "Bearer" /\ header.sep = " ")
    THEN Extracted("Unauthorized", "Invalid authorization scheme", {}, "none")
  ELSE LET v == validate_token(header.token, now, leeway)
       IN  IF v.result = "Ok"
           THEN Extracted("Ok", "",
                  { [user_id |-> c.sub, username |-> c.username] : c \in v.claims },
                  "none")
           ELSE Extracted("Unauthorized", "Invalid token", {}, v.result)

\* the response of the register and login routes for a service result
AuthRouteMessage(op, result) ==
  CASE result = "Ok" /\ op = "register" -> "User registered successfully"
    [] result = "Ok" -> ""
    [] result = "UsernameTaken" -> "Username already exists"
    [] result = "InvalidCredentials" -> "Invalid username or password"
    [] result = "DatabaseError" -> "Database error: e"
    [] OTHER -> "Token generation error: e"

\* the outcome of the last register, login or authenticated request
AuthResp(op, username, password, email, header, fault, now, result, message, user, token, identity, cause) ==
  [op |-> op, username |-> username, password |-> password, email |-> email,
   header |-> header, fault |-> fault, now |-> now, result |-> result,
   message |-> message, user |-> user, token |-> token,
   identity |-> identity, cause |-> cause]

RegisterFaults == {"none", "find_by_username", "insert"}
LoginFaults == {"none", "find_by_username", "encode"}

(* ------------------------------ Init ----------------------------------- *)
Init ==
  /\ travel_plans = {}
  /\ route_options = {}
  /\ points_of_interest = {}
  /\ foreign_keys \in BOOLEAN
  /\ plan_seq = 0
  /\ route_seq = 0
  /\ poi_seq = 0
  /\ created = {}
  /\ deleted = {}
  /\ resp = Resp("init", None, 0, 0, NoUpdate, "none", "Ok", {}, {}, 0)
  /\ users = {}
  /\ user_seq = 0
  /\ clock = 0
  /\ jwt_leeway = {}
  /\ issued = {}
  /\ auth = AuthResp("init", "", "", "", NoHeader, "none", 0, "Ok", "", {}, {},
                     {}, "none")
  /\ http = Http(200, <<>>, {})
  /\ calls = {}

(* ----------------------- travel plan operations ------------------------ *)
\* TravelPlanService::get_travel_plans
GetTravelPlans(F) ==
  \E user_id \in Users, fault \in F \cap ListFaults :
    LET plans == TravelPlan_find_by_user_id(user_id)
    IN  /\ IF fault = "find_by_user_id"
           THEN resp' = Resp("get_travel_plans", user_id, 0, 0, NoUpdate, fault,
                             "DatabaseError", {}, {}, 0)
           ELSE \E failing \in SUBSET {p.id : p \in plans} :
                  /\ (failing # {}) <=> (fault = "find_by_travel_plan_id")
                  /\ resp' = Resp("get_travel_plans", user_id, 0, 0, NoUpdate,
                        fault, "Ok",
                        { TravelPlanDto(p,
                            IF p.id \in failing THEN FALSE
                            ELSE RouteOption_find_by_travel_plan_id(p.id) # {})
                          : p \in plans }, {}, 0)
        /\ UNCHANGED <<tables, foreign_keys, plan_seq, route_seq, poi_seq, ghost>>
        /\ UNCHANGED auth_vars
        /\ Deliver
        /\ UNCHANGED calls

\* TravelPlanService::get_travel_plan_by_id
GetTravelPlanById(F) ==
  \E plan_id \in PlanIds, user_id \in Users, fault \in F \cap GetFaults :
    LET r == get_travel_plan_by_id(plan_id, user_id, fault)
    IN  /\ resp' = Resp("get_travel_plan_by_id", user_id, plan_id, 0, NoUpdate,
                        fault, r.result, r.plans, {}, 0)
        /\ UNCHANGED <<tables, foreign_keys, plan_seq, route_seq, poi_seq, ghost>>
        /\ UNCHANGED auth_vars
        /\ Deliver
        /\ UNCHANGED calls

\* TravelPlanService::create_travel_plan
CreateTravelPlan(F, T) ==
  \E user_id \in Users, owner \in Users, f \in NewPlanFields, now \in Now(T),
     fault \in F \cap CreateFaults :
    LET plan_data == [user_id |-> owner, name |-> f.name,
                      description |-> f.description,
                      start_location |-> f.start_location,
                      end_location |-> f.end_location,
                      start_date |-> f.start_date, end_date |-> f.end_date]
        id == plan_seq + 1
        plan == TravelPlan_create(plan_data, id, now)
    IN  /\ plan_seq < MaxPlans
        /\ plan_seq' = id
        /\ IF fault = "insert"
           THEN /\ UNCHANGED <<travel_plans, created>>
                /\ resp' = Resp("create_travel_plan", user_id, id, 0, plan_data,
                                fault, "DatabaseError", {}, {}, 0)
           ELSE /\ travel_plans' = travel_plans \cup {plan}
                /\ created' = created \cup {[id |-> id, user_id |-> plan.user_id,
                                            caller |-> user_id]}
                /\ resp' = Resp("create_travel_plan", user_id, id, 0, plan_data,
                                fault, "Ok", {TravelPlanDto(plan, FALSE)}, {}, 0)
        /\ UNCHANGED <<route_options, points_of_interest, foreign_keys,
                       route_seq, poi_seq, deleted>>
        /\ UNCHANGED auth_vars
        /\ Deliver
        /\ UNCHANGED calls

\* TravelPlanService::update_travel_plan
UpdateTravelPlan(F, T, U) ==
  \E plan_id \in PlanIds, user_id \in Users, update_data \in U,
     now \in Now(T), fault \in F \cap UpdateFaults :
    LET g == get_travel_plan_by_id(plan_id, user_id, fault)
    IN  /\ IF g.result # "Ok"
           THEN /\ resp' = Resp("update_travel_plan", user_id, plan_id, 0,
                                update_data, fault, g.result, {}, {}, 0)
                /\ UNCHANGED travel_plans
           ELSE \E plan_dto \in g.plans :
                  LET updated_plan ==
                        TravelPlan_update(plan_dto.travel_plan, update_data, now)
                  IN  IF fault = "update"
                      THEN /\ resp' = Resp("update_travel_plan", user_id, plan_id,
                                           0, update_data, fault, "DatabaseError",
                                           {}, {}, 0)
                           /\ UNCHANGED travel_plans
                      ELSE /\ travel_plans' =
                                TravelPlan_update_rows(travel_plans, updated_plan)
                           /\ resp' = Resp("update_travel_plan", user_id, plan_id,
                                  0, update_data, fault, "Ok",
                                  {TravelPlanDto(updated_plan,
                                                 plan_dto.has_routes_generated)},
                                  {}, 0)
        /\ UNCHANGED <<route_options, points_of_interest, foreign_keys,
                       plan_seq, route_seq, poi_seq, ghost>>
        /\ UNCHANGED auth_vars
        /\ Deliver
        /\ UNCHANGED calls

\* TravelPlanService::delete_travel_plan
DeleteTravelPlan(F) ==
  \E plan_id \in PlanIds, user_id \in Users, fault \in F \cap DeleteFaults :
    LET g == get_travel_plan_by_id(plan_id, user_id, fault)
    IN  /\ IF g.result # "Ok"
           THEN /\ resp' = Resp("delete_travel_plan", user_id, plan_id, 0,
                                NoUpdate, fault, g.result, {}, {}, 0)
                /\ UNCHANGED <<travel_plans, deleted>>
           ELSE IF fault = "delete" \/ (foreign_keys /\ PlanReferenced(plan_id))
           THEN /\ resp' = Resp("delete_travel_plan", user_id, plan_id, 0,
                                NoUpdate, fault, "DatabaseError", {}, {}, 0)
                /\ UNCHANGED <<travel_plans, deleted>>
           ELSE LET rows_affected ==
                      Cardinality(travel_plans) -
                      Cardinality(TravelPlan_delete(travel_plans, plan_id))
                IN  /\ travel_plans' = TravelPlan_delete(travel_plans, plan_id)
                    /\ deleted' = IF rows_affected > 0
                                  THEN deleted \cup {plan_id} ELSE deleted
                    /\ resp' = Resp("delete_travel_plan", user_id, plan_id, 0,
                                    NoUpdate, fault,
                                    IF rows_affected > 0 THEN "Ok"
                                    ELSE "NotFound", {}, {}, 0)
        /\ UNCHANGED <<route_options, points_of_interest, foreign_keys,
                       plan_seq, route_seq, poi_seq, created>>
        /\ UNCHANGED auth_vars
        /\ Deliver
        /\ UNCHANGED calls

(* ----------------------- route option operations ----------------------- *)
\* PlanCheckFails with the route row removed before the plan check returns
PlanCheckFails_deletes(op, user_id, plan_id, route_id, fault, g) ==
  /\ g.result # "Ok"
  /\ resp' = Resp(op, user_id, plan_id, route_id, NoUpdate, fault,
                  FromTravelPlanError(g.result), {}, {}, 0)
  /\ route_options' = route_options \ RouteOption_find_by_id(route_id)
  /\ UNCHANGED <<travel_plans, points_of_interest, route_seq, poi_seq>>

\* the error a route operation returns when the plan check does not pass
PlanCheckFails(op, user_id, plan_id, route_id, fault, g) ==
  /\ g.result # "Ok"
  /\ resp' = Resp(op, user_id, plan_id, route_id, NoUpdate, fault,
                  FromTravelPlanError(g.result), {}, {}, 0)
  /\ UNCHANGED <<tables, route_seq, poi_seq>>

\* RouteOptionService::get_route_options
GetRouteOptions(F) ==
  \E plan_id \in PlanIds, user_id \in Users, fault \in F \cap RouteListFaults :
    LET g == get_travel_plan_by_id(plan_id, user_id, fault)
        routes == RouteOption_find_by_travel_plan_id(plan_id)
        op == "get_route_options"
    IN  /\ \/ PlanCheckFails(op, user_id, plan_id, 0, fault, g)
           \/ /\ g.result = "Ok"
              /\ fault = "find_pois" => routes # {}
              /\ resp' =
                   IF fault \in {"find_routes", "find_pois"}
                   THEN Resp(op, user_id, plan_id, 0, NoUpdate, fault,
                             "DatabaseError", {}, {}, 0)
                   ELSE Resp(op, user_id, plan_id, 0, NoUpdate, fault, "Ok", {},
                             { RouteOptionWithPois(r,
                                 PointOfInterest_find_by_route_option_id(r.id))
                               : r \in routes }, 0)
              /\ UNCHANGED <<tables, route_seq, poi_seq>>
        /\ UNCHANGED <<foreign_keys, plan_seq, ghost>>
        /\ UNCHANGED auth_vars
        /\ Deliver
        /\ UNCHANGED calls

\* RouteOptionService::generate_route_options.  The routes are inserted one
\* by one, then the points of interest of each route one by one, each INSERT
\* committed on its own: with fault "insert_route" the INSERT after the first
\* k routes fails, with "insert_poi" the INSERT after the points of the first
\* j routes and m points of the next one.
GenerateRouteOptions(F, T) ==
  \E plan_id \in PlanIds, user_id \in Users, count \in 0..MaxCount,
     now \in Now(T), fault \in F \cap GenerateFaults :
    LET g == get_travel_plan_by_id(plan_id, user_id, fault)
        op == "generate_route_options"
        poi_count == PoiCount(count)
    IN  /\ route_seq + count <= MaxRoutes
        /\ \/ /\ PlanCheckFails(op, user_id, plan_id, 0, fault, g)
           \/ /\ g.result = "Ok"
              /\ \E plan_dto \in g.plans, rd \in RouteDraws(count),
                    pd \in [0..(count - 1) -> PoiDraws(poi_count)],
                    k \in (IF fault = "insert_route" THEN 0..(count - 1)
                           ELSE {count}),
                    j \in (IF fault = "insert_poi" THEN 0..(count - 1)
                           ELSE {count}),
                    m \in (IF fault = "insert_poi" THEN 0..(poi_count - 1)
                           ELSE {0}) :
                   LET generated == generate_random_options(
                                      plan_dto.travel_plan, count, route_seq + 1,
                                      now, rd)
                       routes == { r \in generated : r.id - route_seq <= k }
                       first(r) == poi_seq + (r.id - route_seq - 1) * poi_count + 1
                       pois(r) == generate_random_pois(r, poi_count, first(r),
                                     now, pd[r.id - route_seq - 1])
                       stored(r) ==
                         IF fault = "insert_route" THEN {}
                         ELSE IF r.id - route_seq - 1 < j THEN pois(r)
                         ELSE IF r.id - route_seq - 1 = j
                           THEN { q \in pois(r) : q.id - first(r) < m }
                         ELSE {}
                       all_stored == UNION { stored(r) : r \in routes }
                   IN  /\ route_options' = route_options \cup routes
                       /\ points_of_interest' = points_of_interest \cup all_stored
                       /\ route_seq' = route_seq + Cardinality(routes)
                       /\ poi_seq' = poi_seq + Cardinality(all_stored)
                       /\ resp' =
                            IF fault \in {"insert_route", "insert_poi"}
                            THEN Resp(op, user_id, plan_id, 0, count, fault,
                                      "DatabaseError", {}, {}, 0)
                            ELSE Resp(op, user_id, plan_id, 0, count, fault, "Ok",
                                   {}, { RouteOptionWithPois(r, pois(r))
                                         : r \in routes }, 0)
              /\ UNCHANGED travel_plans
        /\ UNCHANGED <<foreign_keys, plan_seq, ghost>>
        /\ UNCHANGED auth_vars
        /\ Deliver
        /\ UNCHANGED calls

\* RouteOptionService::get_route_option_by_id
GetRouteOptionById(F) ==
  \E plan_id \in PlanIds, route_id \in RouteIds, user_id \in Users,
     fault \in F \cap RouteGetFaults :
    LET g == get_travel_plan_by_id(plan_id, user_id, fault)
        found == RouteOption_find_by_id(route_id)
        op == "get_route_option_by_id"
        R(result, routes) ==
          Resp(op, user_id, plan_id, route_id, NoUpdate, fault, result, {},
               routes, 0)
    IN  /\ \/ PlanCheckFails(op, user_id, plan_id, route_id, fault, g)
           \/ /\ g.result = "Ok"
              /\ fault = "find_pois" =>
                   \E r \in found : RouteBelongsTo(r, plan_id)
              /\ resp' =
                   IF fault = "find_route" THEN R("DatabaseError", {})
                   ELSE IF found = {} THEN R("RouteNotFound", {})
                   ELSE IF \E r \in found : ~RouteBelongsTo(r, plan_id)
                     THEN R("InvalidRouteOption", {})
                   ELSE IF fault = "find_pois" THEN R("DatabaseError", {})
                   ELSE R("Ok",
                          { RouteOptionWithPois(r,
                              PointOfInterest_find_by_route_option_id(r.id))
                            : r \in found })
              /\ UNCHANGED <<tables, route_seq, poi_seq>>
        /\ UNCHANGED <<foreign_keys, plan_seq, ghost>>
        /\ UNCHANGED auth_vars
        /\ Deliver
        /\ UNCHANGED calls

\* mutant: the route row is deleted before its points of interest
delete_route_option_route_first(route_id, fault) ==
  IF fault = "delete_route"
    THEN [result |-> "DatabaseError", n |-> 0,
          points_of_interest |-> points_of_interest,
          route_options |-> route_options]
  ELSE IF fault = "delete_pois"
    THEN [result |-> "DatabaseError", n |-> 0,
          points_of_interest |-> points_of_interest,
          route_options |-> RouteOption_delete(route_options, route_id)]
  ELSE [result |-> "Ok", n |-> 1,
        points_of_interest |->
          PointOfInterest_delete_by_route_option_id(points_of_interest, route_id),
        route_options |-> RouteOption_delete(route_options, route_id)]

\* the two delete statements of delete_route_option, in the order the code
\* issues them: what is stored and returned when `fault` names the one that
\* fails
delete_route_option_steps(route_id, fault) ==
  IF fault = "delete_pois"
    THEN [result |-> "DatabaseError", n |-> 0,
          points_of_interest |-> points_of_interest,
          route_options |-> route_options]
  ELSE IF fault = "delete_route"
    THEN [result |-> "DatabaseError", n |-> 0,
          points_of_interest |->
            PointOfInterest_delete_by_route_option_id(points_of_interest, route_id),
          route_options |-> route_options]
  ELSE [result |-> "Ok", n |-> 1,
        points_of_interest |->
          PointOfInterest_delete_by_route_option_id(points_of_interest, route_id),
        route_options |-> RouteOption_delete(route_options, route_id)]

\* RouteOptionService::delete_route_option
DeleteRouteOption(F) ==
  \E plan_id \in PlanIds, route_id \in RouteIds, user_id \in Users,
     fault \in F \cap RouteDeleteFaults :
    LET g == get_travel_plan_by_id(plan_id, user_id, fault)
        found == RouteOption_find_by_id(route_id)
        op == "delete_route_option"
        R(result, n) ==
          Resp(op, user_id, plan_id, route_id, NoUpdate, fault, result, {}, {}, n)
        valid == found # {} /\ \A r \in found : RouteBelongsTo(r, plan_id)
    IN  /\ \/ PlanCheckFails(op, user_id, plan_id, route_id, fault, g)
           \/ /\ g.result = "Ok"
              /\ fault \in {"delete_pois", "delete_route"} => valid
              /\ IF fault = "find_route"
                   THEN resp' = R("DatabaseError", 0) /\ UNCHANGED tables
                 ELSE IF found = {}
                   THEN resp' = R("RouteNotFound", 0) /\ UNCHANGED tables
                 ELSE IF ~valid
                   THEN resp' = R("InvalidRouteOption", 0) /\ UNCHANGED tables
                 ELSE LET d == delete_route_option_steps(route_id, fault)
                      IN  /\ points_of_interest' = d.points_of_interest
                          /\ route_options' = d.route_options
                          /\ resp' = R(d.result, d.n)
                          /\ UNCHANGED travel_plans
              /\ UNCHANGED <<route_seq, poi_seq>>
        /\ UNCHANGED <<foreign_keys, plan_seq, ghost>>
        /\ UNCHANGED auth_vars
        /\ Deliver
        /\ UNCHANGED calls

\* RouteOptionService::delete_all_route_options
DeleteAllRouteOptions(F) ==
  \E plan_id \in PlanIds, user_id \in Users,
     fault \in F \cap RouteDeleteAllFaults :
    LET g == get_travel_plan_by_id(plan_id, user_id, fault)
        routes == RouteOption_find_by_travel_plan_id(plan_id)
        op == "delete_all_route_options"
        R(result, n) ==
          Resp(op, user_id, plan_id, 0, NoUpdate, fault, result, {}, {}, n)
        without(rows, ids) == { q \in rows : q.route_option_id \notin ids }
    IN  /\ \/ PlanCheckFails(op, user_id, plan_id, 0, fault, g)
           \/ /\ g.result = "Ok"
              /\ fault \in {"delete_pois", "delete_routes"} => routes # {}
              /\ UNCHANGED <<travel_plans, route_seq, poi_seq>>
              /\ IF fault = "find_routes"
                   THEN /\ resp' = R("DatabaseError", 0)
                        /\ UNCHANGED <<route_options, points_of_interest>>
                 ELSE IF routes = {}
                   THEN /\ resp' = R("Ok", 0)
                        /\ UNCHANGED <<route_options, points_of_interest>>
                 ELSE IF fault = "delete_pois"
                   THEN \E done \in SUBSET {r.id : r \in routes} :
                          /\ done # {r.id : r \in routes}
                          /\ points_of_interest' =
                               without(points_of_interest, done)
                          /\ UNCHANGED route_options
                          /\ resp' = R("DatabaseError", 0)
                 ELSE /\ points_of_interest' =
                           without(points_of_interest, {r.id : r \in routes})
                      /\ IF fault = "delete_routes"
                         THEN /\ resp' = R("DatabaseError", 0)
                              /\ UNCHANGED route_options
                         ELSE /\ route_options' =
                                   { r \in route_options :
                                       r.travel_plan_id # plan_id }
                              /\ resp' = R("Ok", Cardinality(routes))
        /\ UNCHANGED <<foreign_keys, plan_seq, ghost>>
        /\ UNCHANGED auth_vars
        /\ Deliver
        /\ UNCHANGED calls

(* --------------------- registration, login, requests ------------------- *)
\* every action of the resource services leaves these as they are
resource_vars == <<travel_plans, route_options, points_of_interest,
                   foreign_keys, plan_seq, route_seq, poi_seq, resp,
                   created, deleted, http>>

\* time passes
Tick ==
  /\ \E t \in AuthTimes : t > clock /\ clock' = t
  /\ UNCHANGED <<resource_vars, users, user_seq, jwt_leeway, issued, auth, calls>>

\* AuthService::register, behind the register route
Register(F, P) ==
  \E username \in Usernames, password \in P, email \in Emails,
     salt \in Salts, fault \in F \cap RegisterFaults :
    LET user_data == [username |-> username, password |-> password,
                      email |-> email]
        id == user_seq + 1
        user == User_create(user_data, id, salt, clock)
        R(result, u) ==
          AuthResp("register", username, password, email, NoHeader, fault,
                   clock, result, AuthRouteMessage("register", result), u, {},
                   {}, "none")
    IN  /\ IF fault = "find_by_username"
             THEN auth' = R("DatabaseError", {}) /\ UNCHANGED <<users, user_seq>>
           ELSE IF User_find_by_username(username) # {}
             THEN auth' = R("UsernameTaken", {}) /\ UNCHANGED <<users, user_seq>>
           ELSE /\ user_seq < MaxUsers
                /\ user_seq' = id
                /\ IF fault = "insert" \/ UsersUniqueViolated(user_data)
                     THEN auth' = R("DatabaseError", {}) /\ UNCHANGED users
                   ELSE auth' = R("Ok", {user}) /\ users' = users \cup {user}
        /\ UNCHANGED <<resource_vars, clock, jwt_leeway, issued, calls>>

\* AuthService::login, behind the login route
Login(F, P) ==
  \E username \in Usernames, password \in P,
     fault \in F \cap LoginFaults :
    LET credentials == [username |-> username, password |-> password]
        found == User_authenticate(credentials)
        R(result, u, t) ==
          AuthResp("login", username, password, "", NoHeader, fault, clock,
                   result, AuthRouteMessage("login", result), u, t, {}, "none")
    IN  /\ IF fault = "find_by_username"
             THEN auth' = R("DatabaseError", {}, {}) /\ UNCHANGED issued
           ELSE IF found = {}
             THEN auth' = R("InvalidCredentials", {}, {}) /\ UNCHANGED issued
           ELSE IF fault = "encode"
             THEN auth' = R("TokenGenerationError", {}, {}) /\ UNCHANGED issued
           ELSE \E user \in found :
                  LET token == generate_token(user, clock)
                  IN  /\ Cardinality(issued \cup {token.token}) <= MaxTokens
                      /\ issued' = issued \cup {token.token}
                      /\ auth' = R("Ok", {user}, {token})
        /\ UNCHANGED <<resource_vars, users, user_seq, clock, jwt_leeway, calls>>

\* a request to a route whose handler takes an AuthenticatedUser
Request ==
  \E header \in {NoHeader, NotTextHeader} \cup TextHeaders(PresentedTokens),
     leeway \in (IF jwt_leeway = {} THEN Leeways ELSE jwt_leeway) :
    LET x == from_request(header, clock, leeway)
    IN  /\ jwt_leeway' = {leeway}
        /\ auth' = AuthResp("request", "", "", "", header, "none", clock,
                            x.result, x.message, {}, {}, x.identity, x.cause)
        /\ UNCHANGED <<resource_vars, users, user_seq, clock, issued, calls>>

(* ------------------------- requests in flight -------------------------- *)
\* Handlers run on several workers, each with its own pooled connection:
\* the statements of two calls interleave, each statement being atomic.
\* calls holds the calls whose checks have passed (a call whose check fails
\* returns at once, as in the one-step actions above); pc is
\* "done" once the call has returned, seen what its reads returned (and,
\* once done, what it returns), at the position of its write among the writes.

\* number of calls in flight or returned
MaxCalls == 2

Call(cid, op, caller, plan_id, route_id, input, pc, seen, result, n, at) ==
  [cid |-> cid, op |-> op, caller |-> caller, plan_id |-> plan_id,
   route_id |-> route_id, input |-> input, pc |-> pc, seen |-> seen,
   result |-> result, n |-> n, at |-> at]

\* the position of the next write
NextWrite == Cardinality({ c \in calls : c.at > 0 }) + 1

\* what a call leaves alone when it writes to travel_plans only
plan_write_frame ==
  <<route_options, points_of_interest, foreign_keys, plan_seq, route_seq,
    poi_seq, resp, created, deleted, http, auth_vars>>

\* update_travel_plan up to the return of its get_travel_plan_by_id
UpdateRead(U) ==
  /\ Cardinality(calls) < MaxCalls
  /\ \E plan_id \in PlanIds, user_id \in Users, update_data \in U :
       LET g == get_travel_plan_by_id(plan_id, user_id, "none")
       IN  /\ g.result = "Ok"
           /\ calls' = calls \cup
                { Call(Cardinality(calls) + 1, "update_travel_plan", user_id,
                       plan_id, 0, update_data, "read", g.plans, g.result,
                       0, 0) }
  /\ UNCHANGED <<resource_vars, auth_vars>>

\* update_travel_plan from plan_dto.travel_plan.update(..) to its return
UpdateWrite(T) ==
  \E c \in calls, now \in Now(T) :
    /\ c.op = "update_travel_plan"
    /\ c.pc = "read"
    /\ \E plan_dto \in c.seen :
         LET updated_plan == TravelPlan_update(plan_dto.travel_plan, c.input, now)
         IN  /\ travel_plans' = TravelPlan_update_rows(travel_plans, updated_plan)
             /\ calls' = (calls \ {c}) \cup
                  { [c EXCEPT !.pc = "done", !.result = "Ok", !.at = NextWrite,
                              !.seen = { TravelPlanDto(updated_plan,
                                           plan_dto.has_routes_generated) }] }
    /\ UNCHANGED plan_write_frame

\* delete_travel_plan up to the return of its get_travel_plan_by_id
DeletePlanRead ==
  /\ Cardinality(calls) < MaxCalls
  /\ \E plan_id \in PlanIds, user_id \in Users :
       LET g == get_travel_plan_by_id(plan_id, user_id, "none")
       IN  /\ g.result = "Ok"
           /\ calls' = calls \cup
                { Call(Cardinality(calls) + 1, "delete_travel_plan", user_id,
                       plan_id, 0, NoUpdate, "read", g.plans, g.result, 0, 0) }
  /\ UNCHANGED <<resource_vars, auth_vars>>

\* delete_travel_plan from TravelPlan::delete to its return
DeletePlanWrite ==
  \E c \in calls :
    /\ c.op = "delete_travel_plan"
    /\ c.pc = "read"
    /\ LET rejected == /\ foreign_keys
                       /\ TravelPlan_find_by_id(c.plan_id) # {}
                       /\ PlanReferenced(c.plan_id)
           rows_affected == Cardinality(travel_plans) -
                            Cardinality(TravelPlan_delete(travel_plans, c.plan_id))
           result == IF rejected THEN "DatabaseError"
                     ELSE IF rows_affected > 0 THEN "Ok" ELSE "NotFound"
       IN  /\ travel_plans' = IF rejected THEN travel_plans
                              ELSE TravelPlan_delete(travel_plans, c.plan_id)
           /\ deleted' = IF result = "Ok" THEN deleted \cup {c.plan_id}
                         ELSE deleted
           /\ calls' = (calls \ {c}) \cup
                { [c EXCEPT !.pc = "done", !.result = result, !.at = NextWrite,
                            !.n = IF rejected THEN 0 ELSE rows_affected,
                            !.seen = {}] }
    /\ UNCHANGED <<route_options, points_of_interest, foreign_keys, plan_seq,
                   route_seq, poi_seq, resp, created, http, auth_vars>>

\* delete_route_option up to the return of RouteOption::find_by_id and the
\* parent cross-check
DeleteRouteRead ==
  /\ Cardinality(calls) < MaxCalls
  /\ \E plan_id \in PlanIds, route_id \in RouteIds, user_id \in Users :
       LET g == get_travel_plan_by_id(plan_id, user_id, "none")
           found == RouteOption_find_by_id(route_id)
           result == IF g.result # "Ok" THEN FromTravelPlanError(g.result)
                     ELSE IF found = {} THEN "RouteNotFound"
                     ELSE IF \E r \in found : ~RouteBelongsTo(r, plan_id)
                       THEN "InvalidRouteOption"
                     ELSE "Ok"
       IN  /\ result = "Ok"
           /\ calls' = calls \cup
                { Call(Cardinality(calls) + 1, "delete_route_option", user_id,
                       plan_id, route_id, NoUpdate, "read", {}, result, 0, 0) }
  /\ UNCHANGED <<resource_vars, auth_vars>>

\* delete_route_option: PointOfInterest::delete_by_route_option_id
DeleteRoutePois ==
  \E c \in calls :
    /\ c.op = "delete_route_option"
    /\ c.pc = "read"
    /\ points_of_interest' =
         PointOfInterest_delete_by_route_option_id(points_of_interest, c.route_id)
    /\ calls' = (calls \ {c}) \cup { [c EXCEPT !.pc = "pois"] }
    /\ UNCHANGED <<travel_plans, route_options, foreign_keys, plan_seq,
                   route_seq, poi_seq, resp, created, deleted, http, auth_vars>>

\* delete_route_option from RouteOption::delete to its return: Ok(deleted)
DeleteRouteRow ==
  \E c \in calls :
    /\ c.op = "delete_route_option"
    /\ c.pc = "pois"
    /\ route_options' = RouteOption_delete(route_options, c.route_id)
    /\ calls' = (calls \ {c}) \cup
         { [c EXCEPT !.pc = "done", !.result = "Ok", !.at = NextWrite,
                     !.n = Cardinality(route_options) -
                           Cardinality(RouteOption_delete(route_options,
                                                          c.route_id))] }
    /\ UNCHANGED <<travel_plans, points_of_interest, foreign_keys, plan_seq,
                   route_seq, poi_seq, resp, created, deleted, http, auth_vars>>

\* register up to the return of User::find_by_username with Ok(None)
RegisterCheck(P) ==
  /\ Cardinality(calls) < MaxCalls
  /\ \E username \in Usernames, password \in P, email \in Emails :
       /\ User_find_by_username(username) = {}
       /\ calls' = calls \cup
            { Call(Cardinality(calls) + 1, "register", username, 0, 0,
                   [username |-> username, password |-> password,
                    email |-> email], "read", {}, "Ok", 0, 0) }
  /\ UNCHANGED <<resource_vars, auth_vars>>

\* register from User::create to its return
RegisterInsert ==
  \E c \in calls, salt \in Salts :
    /\ c.op = "register"
    /\ c.pc = "read"
    /\ user_seq < MaxUsers
    /\ user_seq' = user_seq + 1
    /\ LET user == User_create(c.input, user_seq + 1, salt, clock)
       IN  IF UsersUniqueViolated(c.input)
           THEN /\ UNCHANGED users
                /\ calls' = (calls \ {c}) \cup
                     { [c EXCEPT !.pc = "done", !.result = "DatabaseError",
                                 !.at = NextWrite] }
           ELSE /\ users' = users \cup {user}
                /\ calls' = (calls \ {c}) \cup
                     { [c EXCEPT !.pc = "done", !.result = "Ok",
                                 !.seen = {user}, !.at = NextWrite] }
    /\ UNCHANGED <<resource_vars, clock, jwt_leeway, issued, auth>>

(* --------------------------- specifications ---------------------------- *)
\* every storage statement succeeds
Next ==
  \/ GetTravelPlans(NoFaults)
  \/ GetTravelPlanById(NoFaults)
  \/ CreateTravelPlan(NoFaults, CoreTimes)
  \/ UpdateTravelPlan(NoFaults, CoreTimes, CoreUpdates)
  \/ DeleteTravelPlan(NoFaults)
  \/ GetRouteOptions(NoFaults)
  \/ GenerateRouteOptions(NoFaults, CoreTimes)
  \/ GetRouteOptionById(NoFaults)
  \/ DeleteRouteOption(NoFaults)
  \/ DeleteAllRouteOptions(NoFaults)

Spec == Init /\ [][Next]_vars

\* any one read statement of a call may fail
ReadFaults ==
  {"none", "find_by_user_id", "find_by_id", "find_by_travel_plan_id",
   "find_routes", "find_route", "find_pois"}

\* the two plan queries with failing read statements, over the operations
\* that insert and delete plan rows and route rows
NextFault ==
  \/ GetTravelPlans(ReadFaults)
  \/ GetTravelPlanById(ReadFaults)
  \/ CreateTravelPlan(NoFaults, CoreTimes)
  \/ DeleteTravelPlan(NoFaults)
  \/ GenerateRouteOptions(NoFaults, CoreTimes)
  \/ DeleteAllRouteOptions(NoFaults)

SpecFault == Init /\ [][NextFault]_vars

\* the plan operations with the clock running and every partial update
NextFields ==
  \/ GetTravelPlanById(NoFaults)
  \/ CreateTravelPlan(NoFaults, Times)
  \/ UpdateTravelPlan(NoFaults, Times, UpdateInputs)
  \/ DeleteTravelPlan(NoFaults)

SpecFields == Init /\ [][NextFields]_vars

\* delete_route_option with each of its statements failing, over the
\* operations that insert plans and routes
NextDelete ==
  \/ CreateTravelPlan(NoFaults, CoreTimes)
  \/ GenerateRouteOptions(NoFaults, CoreTimes)
  \/ GetRouteOptions(NoFaults)
  \/ DeleteRouteOption(RouteDeleteFaults)

SpecDelete == Init /\ [][NextDelete]_vars

\* generate_route_options with each of its statements failing
NextGenerate ==
  \/ CreateTravelPlan(NoFaults, CoreTimes)
  \/ GenerateRouteOptions(GenerateFaults, CoreTimes)
  \/ GetRouteOptions(NoFaults)

SpecGenerate == Init /\ [][NextGenerate]_vars

\* the operations that write rows, with an update that names every field
WritingUpdates == {UpdateAll}

NextLinks ==
  \/ CreateTravelPlan(NoFaults, CoreTimes)
  \/ UpdateTravelPlan(NoFaults, CoreTimes, WritingUpdates)
  \/ DeleteTravelPlan(NoFaults)
  \/ GenerateRouteOptions(NoFaults, CoreTimes)
  \/ DeleteRouteOption(NoFaults)

SpecLinks == Init /\ [][NextLinks]_vars

\* two update_travel_plan calls whose statements interleave
DisjointUpdates == {UpdateA, UpdateB}

NextRaceUpdate ==
  \/ CreateTravelPlan(NoFaults, CoreTimes)
  \/ UpdateRead(DisjointUpdates)
  \/ UpdateWrite(Times)

SpecRaceUpdate == Init /\ [][NextRaceUpdate]_vars

\* two delete calls whose statements interleave
NextRaceDelete ==
  \/ CreateTravelPlan(NoFaults, CoreTimes)
  \/ GenerateRouteOptions(NoFaults, CoreTimes)
  \/ DeletePlanRead
  \/ DeletePlanWrite
  \/ DeleteRouteRead
  \/ DeleteRoutePois
  \/ DeleteRouteRow

SpecRaceDelete == Init /\ [][NextRaceDelete]_vars

\* registration and login with every password, and with their storage and
\* encoding statements failing
NextAuth ==
  \/ Register(RegisterFaults, Passwords)
  \/ Login(LoginFaults, Passwords)

SpecAuth == Init /\ [][NextAuth]_vars

\* tokens over time: login, and requests that present what a client may hold
OnePassword == {"pw1"}

NextToken ==
  \/ Tick
  \/ Register(NoFaults, OnePassword)
  \/ Login(NoFaults, OnePassword)
  \/ Request

SpecToken == Init /\ [][NextToken]_vars

\* register calls whose statements interleave, next to whole register calls
NextRaceRegister ==
  \/ Register(NoFaults, OnePassword)
  \/ RegisterCheck(OnePassword)
  \/ RegisterInsert

SpecRaceRegister == Init /\ [][NextRaceRegister]_vars

(* ------------------------------ claims --------------------------------- *)
PlanOps == {"get_travel_plan_by_id", "update_travel_plan", "delete_travel_plan"}
RouteOps == {"generate_route_options", "get_route_option_by_id",
             "delete_route_option", "delete_all_route_options"}
Fields == {"name", "description", "start_location", "end_location",
           "start_date", "end_date"}

\* the plan row a finished call named, and whether another user owns it
NamedPlan == { p \in travel_plans : p.id = resp.plan_id }
NamedRoute == { r \in route_options : r.id = resp.route_id }
PoisOf(rows, route_id) == { q \in rows : q.route_option_id = route_id }

\* C1: for a stored plan that user A's create_travel_plan call inserted, a
\* call of get_travel_plan_by_id, update_travel_plan, delete_travel_plan or
\* get_route_options by another user B that names the plan returns
\* Unauthorized, returns no plan and no route, and leaves the three tables as
\* they were.
C1_OwnershipIsolation ==
  [][ \A c \in created, p \in travel_plans :
        ( /\ p.id = c.id
          /\ resp'.op \in PlanOps \cup {"get_route_options"}
          /\ resp'.plan_id = p.id
          /\ resp'.caller # c.caller )
        => /\ resp'.result = IF resp'.op \in PlanOps THEN "Unauthorized"
                             ELSE "TravelPlanError(Unauthorized)"
           /\ resp'.plans = {}
           /\ resp'.routes = {}
           /\ tables' = tables ]_vars

\* C2: after delete_travel_plan returns success no route option of the plan
\* and no point of interest of such a route is stored.
C2_CascadeCompleteness ==
  [][ (resp'.op = "delete_travel_plan" /\ resp'.result = "Ok")
      => /\ \A r \in route_options' : r.travel_plan_id # resp'.plan_id
         /\ \A r \in route_options :
              r.travel_plan_id = resp'.plan_id
              => PoisOf(points_of_interest', r.id) = {} ]_vars

\* C3: the plan create_travel_plan stores and returns has the caller's id as
\* user_id, whatever user_id the input carries.
C3_OwnerIsCaller ==
  (resp.op = "create_travel_plan" /\ resp.result = "Ok")
  => /\ \A d \in resp.plans : d.travel_plan.user_id = resp.caller
     /\ \A p \in NamedPlan : p.user_id = resp.caller

\* C4: generate_route_options, get_route_option_by_id, delete_route_option and
\* delete_all_route_options return the plan-level Unauthorized when the named
\* plan is stored with another user_id, whatever the route id, and then change
\* no table and hand out no id; they return the plan-level NotFound when no
\* plan with that id is stored.
C4_RoutePlanCheck ==
  [][ resp'.op \in RouteOps
      => /\ \A p \in travel_plans :
              (p.id = resp'.plan_id /\ p.user_id # resp'.caller)
              => /\ resp'.result = "TravelPlanError(Unauthorized)"
                 /\ resp'.routes = {}
                 /\ tables' = tables
                 /\ route_seq' = route_seq /\ poi_seq' = poi_seq
         /\ (\A p \in travel_plans : p.id # resp'.plan_id)
              => /\ resp'.result = "TravelPlanError(NotFound)"
                 /\ tables' = tables ]_vars

\* C4 witness: delete_route_option on a route of the named plan, with its
\* points of interest stored, was refused because the plan is another user's.
C4_Witness ==
  /\ resp.op = "delete_route_option"
  /\ resp.result = "TravelPlanError(Unauthorized)"
  /\ \E p \in NamedPlan, r \in NamedRoute :
       /\ p.user_id # resp.caller
       /\ r.travel_plan_id = p.id
       /\ PoisOf(points_of_interest, r.id) # {}

\* C5: when the caller names a route whose plan is stored with another
\* user_id, under any plan id, get_route_option_by_id returns neither the
\* route nor one of its points of interest, delete_route_option leaves the
\* route and its points of interest stored, and if the plan id names a plan
\* of the caller the result is InvalidRouteOption.
C5_TransitiveOwnership ==
  [][ \A r \in route_options, p \in travel_plans :
        ( /\ resp'.op \in {"get_route_option_by_id", "delete_route_option"}
          /\ resp'.route_id = r.id
          /\ p.id = r.travel_plan_id
          /\ p.user_id # resp'.caller )
        => /\ \A w \in resp'.routes :
                /\ w.route.id # r.id
                /\ w.points_of_interest \cap PoisOf(points_of_interest, r.id) = {}
           /\ r \in route_options'
           /\ PoisOf(points_of_interest', r.id) = PoisOf(points_of_interest, r.id)
           /\ (\E q \in travel_plans :
                 q.id = resp'.plan_id /\ q.user_id = resp'.caller)
              => resp'.result = "InvalidRouteOption" ]_vars

\* C5 witness: delete_route_option under the caller's own plan id, naming a
\* route (with points of interest) of another user's plan, ended with
\* InvalidRouteOption.
C5_Witness ==
  /\ resp.op = "delete_route_option"
  /\ resp.result = "InvalidRouteOption"
  /\ \E q \in NamedPlan, r \in NamedRoute, p \in travel_plans :
       /\ q.user_id = resp.caller
       /\ p.id = r.travel_plan_id
       /\ p.user_id # resp.caller
       /\ PoisOf(points_of_interest, r.id) # {}

C7_PartialUpdate ==
  [][ (resp'.op = "update_travel_plan" /\ resp'.result = "Ok")
      => \E old \in travel_plans, new \in travel_plans' :
           /\ old.id = resp'.plan_id
           /\ old.user_id = resp'.caller
           /\ new.id = old.id
           /\ new.user_id = old.user_id
           /\ new.created_at = old.created_at
           /\ \A f \in Fields :
                new[f] = IF resp'.input[f] # None THEN resp'.input[f] ELSE old[f]
           /\ { d.travel_plan : d \in resp'.plans } = {new}
           /\ \A p \in travel_plans' : p.id # new.id => p \in travel_plans ]_vars

\* C7 witness: an update carrying only start_location, end_location and
\* end_date succeeded on a plan whose name, description and start_date had
\* been set by an earlier update, at a later clock value than the creation.
C7_Witness ==
  /\ resp.op = "update_travel_plan"
  /\ resp.result = "Ok"
  /\ resp.input = UpdateB
  /\ \E p \in NamedPlan :
       /\ p.name = "Tour" /\ p.description = "d1" /\ p.start_date = "day1"
       /\ p.start_location = "BOS" /\ p.end_date = "day2"
       /\ p.updated_at > p.created_at

\* C8: get_travel_plans returns exactly the stored rows whose user_id is the
\* caller; every plan the caller's create_travel_plan calls inserted and no
\* delete_travel_plan removed is in the result, and no plan another user's
\* call inserted is.
C8_ListIsOwnPlans ==
  (resp.op = "get_travel_plans" /\ resp.result = "Ok")
  => /\ { d.travel_plan : d \in resp.plans }
          = { p \in travel_plans : p.user_id = resp.caller }
     /\ { d.travel_plan.id : d \in resp.plans }
          = { e.id : e \in { c \in created :
                               c.caller = resp.caller /\ c.id \notin deleted } }

\* C9: has_routes_generated in the results of get_travel_plans and
\* get_travel_plan_by_id is true exactly when a route option of that plan is
\* stored.
C9_HasRoutesGenerated ==
  (resp.op \in {"get_travel_plans", "get_travel_plan_by_id"} /\ resp.result = "Ok")
  => \A d \in resp.plans :
       d.has_routes_generated
         <=> \E r \in route_options : r.travel_plan_id = d.travel_plan.id

\* C10: once delete_travel_plan has returned success for a plan id, every
\* get_travel_plan_by_id of that id returns NotFound and get_travel_plans does
\* not return the plan.
C10_DeletedStaysGone ==
  /\ (resp.op = "get_travel_plan_by_id" /\ resp.plan_id \in deleted)
       => resp.result = "NotFound" /\ resp.plans = {}
  /\ resp.op = "get_travel_plans"
       => \A d \in resp.plans : d.travel_plan.id \notin deleted

\* C10 witness: the former owner asked for a plan after its deletion.
C10_Witness ==
  /\ resp.op = "get_travel_plan_by_id"
  /\ resp.plan_id \in deleted
  /\ resp.result = "NotFound"
  /\ \E c \in created : c.id = resp.plan_id /\ c.user_id = resp.caller

\* C11: a successful generate_route_options with count N on the caller's plan
\* returns exactly N route options of that plan, each paired with between 2
\* and 5 points of interest that carry the id of the route they are paired
\* with, and every returned route and point of interest is stored; the number
\* of points asked for per route is between 2 and 5 for every count.
C11_GeneratorCount ==
  /\ \A n \in 0..MaxArith : PoiCount(n) \in 2..5
  /\ (resp.op = "generate_route_options" /\ resp.result = "Ok")
     => /\ Cardinality(resp.routes) = resp.input
        /\ Cardinality({ w.route.id : w \in resp.routes }) = resp.input
        /\ \A w \in resp.routes :
             /\ w.route.travel_plan_id = resp.plan_id
             /\ Cardinality(w.points_of_interest) \in 2..5
             /\ \A q \in w.points_of_interest : q.route_option_id = w.route.id
             /\ w.route \in route_options
             /\ w.points_of_interest = PoisOf(points_of_interest, w.route.id)

\* C11 witness: a call with count 2 returned two routes with four points of
\* interest each.
C11_Witness ==
  /\ resp.op = "generate_route_options"
  /\ resp.result = "Ok"
  /\ resp.input = 2
  /\ Cardinality(resp.routes) = 2
  /\ \A w \in resp.routes : Cardinality(w.points_of_interest) = 4

\* C12: a successful get_route_options returns exactly the stored route
\* options of the named plan, each with exactly the stored points of interest
\* of that route; called right after a generate_route_options of count N that
\* found the plan without routes, it returns N entries.
C12_RouteListComplete ==
  [][ (resp'.op = "get_route_options" /\ resp'.result = "Ok")
      => /\ { w.route : w \in resp'.routes }
              = { r \in route_options' : r.travel_plan_id = resp'.plan_id }
         /\ \A w \in resp'.routes :
              w.points_of_interest = PoisOf(points_of_interest', w.route.id)
         /\ ( /\ resp.op = "generate_route_options"
              /\ resp.result = "Ok"
              /\ resp.plan_id = resp'.plan_id
              /\ Cardinality({ r \in route_options :
                                 r.travel_plan_id = resp.plan_id }) = resp.input )
            => Cardinality(resp'.routes) = resp.input ]_vars

\* C12 witness: the list of one plan was returned with a route and its points
\* of interest while a route of another plan, with its own points, was stored.
C12_Witness ==
  /\ resp.op = "get_route_options"
  /\ resp.result = "Ok"
  /\ \E w \in resp.routes : w.points_of_interest # {}
  /\ \E r \in route_options :
       r.travel_plan_id # resp.plan_id /\ PoisOf(points_of_interest, r.id) # {}

\* C13: for a plan stored with the caller's user_id, get_route_option_by_id
\* returns RouteNotFound exactly when no route has the route id,
\* InvalidRouteOption exactly when the route is stored under another plan id,
\* and the route with exactly its stored points of interest exactly when the
\* route is stored under the named plan id.
C13_RouteGetOutcome ==
  ( /\ resp.op = "get_route_option_by_id"
    /\ \E p \in NamedPlan : p.user_id = resp.caller )
  => /\ resp.result \in {"RouteNotFound", "InvalidRouteOption", "Ok"}
     /\ resp.result = "RouteNotFound" <=> NamedRoute = {}
     /\ resp.result = "InvalidRouteOption"
          <=> \E r \in NamedRoute : r.travel_plan_id # resp.plan_id
     /\ resp.result = "Ok"
          <=> \E r \in NamedRoute : r.travel_plan_id = resp.plan_id
     /\ resp.result = "Ok"
          => resp.routes = { RouteOptionWithPois(r, PoisOf(points_of_interest, r.id))
                             : r \in NamedRoute }
     /\ resp.result # "Ok" => resp.routes = {}

\* C13 witness: the caller named a route of their other plan under the wrong
\* plan id and got InvalidRouteOption.
C13_Witness ==
  /\ resp.op = "get_route_option_by_id"
  /\ resp.result = "InvalidRouteOption"
  /\ \E p \in NamedPlan, r \in NamedRoute, q \in travel_plans :
       /\ p.user_id = resp.caller
       /\ q.id = r.travel_plan_id
       /\ q.id # p.id
       /\ q.user_id = resp.caller

\* C14: delete_route_option never leaves a point of interest of the named
\* route stored without the route, whichever of its statements fails; the
\* route row is removed only when no point of interest of it is left; after
\* success neither the route nor a point of interest of it is stored and
\* every other route and point of interest, and every plan, is as before.
C14_PoisDeletedFirst ==
  [][ resp'.op = "delete_route_option"
      => /\ PoisOf(points_of_interest', resp'.route_id) # {}
              => \E r \in route_options' : r.id = resp'.route_id
         /\ route_options' # route_options
              => PoisOf(points_of_interest', resp'.route_id) = {}
         /\ resp'.result = "Ok"
              => /\ \E r \in route_options :
                      r.id = resp'.route_id /\ r.travel_plan_id = resp'.plan_id
                 /\ route_options' =
                      { r \in route_options : r.id # resp'.route_id }
                 /\ points_of_interest' =
                      points_of_interest \ PoisOf(points_of_interest, resp'.route_id)
                 /\ travel_plans' = travel_plans ]_vars

\* C14 witness: the delete of the route row failed after the points of
\* interest of the route had been deleted, with a sibling route of the same
\* plan and its points of interest still stored.
C14_Witness ==
  /\ resp.op = "delete_route_option"
  /\ resp.fault = "delete_route"
  /\ resp.result = "DatabaseError"
  /\ NamedRoute # {}
  /\ PoisOf(points_of_interest, resp.route_id) = {}
  /\ \E r \in route_options :
       /\ r.id # resp.route_id
       /\ r.travel_plan_id = resp.plan_id
       /\ PoisOf(points_of_interest, r.id) # {}

\* C15: register returns UsernameTaken whenever a user with that username is
\* stored (and the lookup itself succeeds) and only then; whenever it does not
\* return success the users table is as before; when no user has the username
\* and storage accepts the insert it succeeds; on success exactly one row,
\* with that username and a fresh id, is added and returned.
C15_RegisterUnique ==
  [][ auth'.op = "register"
      => LET taken == \E u \in users : u.username = auth'.username
             email_taken == \E u \in users : u.email = auth'.email
         IN  /\ (taken /\ auth'.fault # "find_by_username")
                  => auth'.result = "UsernameTaken"
             /\ auth'.result = "UsernameTaken" => taken
             /\ taken => users' = users
             /\ auth'.result # "Ok" => users' = users /\ auth'.user = {}
             /\ (~taken /\ ~email_taken /\ auth'.fault = "none")
                  => auth'.result = "Ok"
             /\ auth'.result = "Ok"
                  => /\ ~taken
                     /\ Cardinality(users') = Cardinality(users) + 1
                     /\ users' = users \cup auth'.user
                     /\ \A u \in auth'.user :
                          /\ u.username = auth'.username
                          /\ \A v \in users : v.id # u.id ]_vars

\* C15 witness: a second registration of a stored username, with another
\* password and another email, was refused with UsernameTaken.
C15_Witness ==
  /\ auth.op = "register"
  /\ auth.result = "UsernameTaken"
  /\ \E u \in users :
       /\ u.username = auth.username
       /\ u.email # auth.email
       /\ ~bcrypt_verify(auth.password, u.password_hash)

\* C16: login returns a token exactly when a stored user has the username and
\* a hash of the presented password; for an unknown username and for a wrong
\* password alike it returns InvalidCredentials with the same message, no user
\* and no token; no token is returned without such a user.
C16_LoginUniformFailure ==
  auth.op = "login"
  => LET holders ==
           { u \in users :
               /\ u.username = auth.username
               /\ u.password_hash
                    = bcrypt_hash(auth.password, u.password_hash.salt) }
     IN  /\ auth.token # {} => holders # {} /\ auth.user = holders
         /\ auth.token # {} <=> auth.result = "Ok"
         /\ auth.fault = "none"
              => /\ auth.result = "Ok" <=> holders # {}
                 /\ auth.result # "Ok"
                      => /\ auth.result = "InvalidCredentials"
                         /\ auth.message = "Invalid username or password"
                         /\ auth.user = {}
                         /\ auth.token = {}
                         /\ auth.identity = {}

\* C16 witness: a login with the wrong password of a registered user ended
\* with InvalidCredentials.
C16_Witness ==
  /\ auth.op = "login"
  /\ auth.result = "InvalidCredentials"
  /\ \E u \in users :
       /\ u.username = auth.username
       /\ ~bcrypt_verify(auth.password, u.password_hash)

\* C17: the token a successful login returns validates, at the instant of
\* issue and under either leeway, to claims with the user's id as sub and the
\* user's username; every altered form of it is rejected; and no request is
\* given an identity for a token login did not hand out.
C17_TokenRoundTrip ==
  /\ (auth.op = "login" /\ auth.result = "Ok")
     => \A t \in auth.token, u \in auth.user, l \in Leeways :
          LET v == validate_token(t.token, auth.now, l)
          IN  /\ v.result = "Ok"
              /\ v.claims # {}
              /\ \A c \in v.claims : c.sub = u.id /\ c.username = u.username
              /\ \A a \in Altered(t.token) :
                   validate_token(a, auth.now, l).result # "Ok"
  /\ (auth.op = "request" /\ auth.identity # {})
     => auth.header.token \in issued

\* C17 witness: a request presented a token re-signed under another secret
\* and was rejected for its signature.
C17_Witness ==
  /\ auth.op = "request"
  /\ auth.cause = "InvalidSignature"
  /\ auth.header.token.signature
       = Mac("another_secret", "HS256", auth.header.token.claims)
  /\ issued # {}

\* C18: every token handed out expires TOKEN_EXPIRATION_HOURS after its issue
\* time, and a request made at or after the expiry time of the token it
\* presents is given no identity.
C18_ExpiredRejected ==
  /\ \A t \in issued :
       t.claims.exp = t.claims.iat + TOKEN_EXPIRATION_HOURS * 3600
  /\ ( /\ auth.op = "request"
       /\ auth.header.token.kind = "jwt"
       /\ auth.now >= auth.header.token.claims.exp )
     => auth.identity = {}

\* C19: a request is given an identity only if its header is text of the
\* form Bearer, one space, token, with a token that validate_token accepts at
\* that instant, and then the identity is the sub and username of the token's
\* claims; a request with no header, another form or a token that fails
\* validation is answered Unauthorized and gets no identity.
C19_Extraction ==
  auth.op = "request"
  => LET h == auth.header
         bearer == h.present /\ h.utf8 /\ h.scheme = "Bearer" /\ h.sep = " "
         valid == \E l \in jwt_leeway :
                    validate_token(h.token, auth.now, l).result = "Ok"
     IN  /\ auth.result = "Ok" <=> auth.identity # {}
         /\ auth.result # "Ok" => auth.result = "Unauthorized"
         /\ auth.identity # {}
              => /\ bearer
                 /\ valid
                 /\ auth.identity = { [user_id |-> h.token.claims.sub,
                                       username |-> h.token.claims.username] }
         /\ (~bearer \/ ~valid) => auth.result = "Unauthorized"

\* C19 witness: an unexpired token that login handed out was presented under
\* the scheme Basic and the request was refused.
C19_Witness ==
  /\ auth.op = "request"
  /\ auth.result = "Unauthorized"
  /\ auth.header.scheme = "Basic"
  /\ auth.header.sep = " "
  /\ auth.header.token \in issued
  /\ auth.now < auth.header.token.claims.exp

\* C20: a request that presents a bearer token which is no JWT, or is signed
\* with another key or declared unsigned, or is past its expiry and every
\* leeway, gets the same answer in each case: Unauthorized, the message
\* Invalid token, no identity.
C20_UniformRejection ==
  ( /\ auth.op = "request"
    /\ auth.header.present /\ auth.header.utf8
    /\ auth.header.scheme = "Bearer" /\ auth.header.sep = " " )
  => LET t == auth.header.token
         malformed == t.kind # "jwt"
         bad_signature ==
           t.kind = "jwt" /\ t.signature # Mac(JWT_SECRET, "HS256", t.claims)
         expired == t.kind = "jwt" /\ auth.now > t.claims.exp + 60
     IN  /\ (malformed \/ bad_signature \/ expired)
              => /\ auth.result = "Unauthorized"
                 /\ auth.message = "Invalid token"
                 /\ auth.identity = {}
         /\ auth.cause # "none"
              => /\ auth.result = "Unauthorized"
                 /\ auth.message = "Invalid token"
                 /\ auth.identity = {}

\* C20 witness: a token that login handed out was presented after its expiry
\* and rejected as expired by the library.
C20_Witness ==
  /\ auth.op = "request"
  /\ auth.cause = "ExpiredSignature"
  /\ auth.header.token \in issued
  /\ auth.message = "Invalid token"

\* C21: whenever a plan or route operation ends with a storage failure, the
\* response delivered to the caller is a server error whose message contains
\* no text of the underlying storage error.
C21_GenericStorageMessage ==
  resp.result \in StorageFailures
  => /\ http.status = 500
     /\ \A i \in DOMAIN http.error :
          http.error[i] \notin (ErrorTexts \cup {ConstraintText})

\* C22: a delete_travel_plan, delete_route_option or delete_all_route_options
\* call that ends with a storage error leaves the stored plans, route options
\* and points of interest as they were before the call.
C22_FailedDeleteChangesNothing ==
  [][ ( /\ resp'.op \in {"delete_travel_plan", "delete_route_option",
                         "delete_all_route_options"}
        /\ resp'.result \in StorageFailures )
      => tables' = tables ]_vars

\* C23: after a generate_route_options call has returned, with success or
\* with a storage error, every stored route option has between 2 and 5
\* points of interest stored for it.
C23_RoutesHavePois ==
  resp.op # "init"
  => \A r \in route_options :
       Cardinality(PoisOf(points_of_interest, r.id)) \in 2..5

\* two plan rows agree in every column other than updated_at
SameButStamp(p, q) ==
  /\ p.id = q.id /\ p.user_id = q.user_id /\ p.created_at = q.created_at
  /\ \A f \in Fields : p[f] = q[f]

\* C24: an update_travel_plan call that follows a successful call with the
\* same plan id and the same partial update stores and returns the plan it
\* found and the plan the first call returned, in every field other than
\* updated_at; a call with every field absent changes no field other than
\* updated_at; the returned plan is the stored one and no other row changes.
C24_UpdateIdempotent ==
  [][ (resp'.op = "update_travel_plan" /\ resp'.result = "Ok")
      => LET before == { p \in travel_plans : p.id = resp'.plan_id }
             after == { p \in travel_plans' : p.id = resp'.plan_id }
             repeated == /\ resp.op = "update_travel_plan"
                         /\ resp.result = "Ok"
                         /\ resp.plan_id = resp'.plan_id
                         /\ resp.input = resp'.input
         IN  /\ Cardinality(after) = 1
             /\ \A d \in resp'.plans : d.travel_plan \in after
             /\ \A p \in travel_plans :
                  p.id # resp'.plan_id => p \in travel_plans'
             /\ resp'.input = NoUpdate
                  => \A p \in before, q \in after : SameButStamp(p, q)
             /\ repeated
                  => /\ \A p \in before, q \in after : SameButStamp(p, q)
                     /\ \A d \in resp.plans, e \in resp'.plans :
                          SameButStamp(d.travel_plan, e.travel_plan) ]_vars

\* C24 witness: a plan changed by an earlier update was updated at a later
\* instant with every field absent.
C24_Witness ==
  /\ resp.op = "update_travel_plan"
  /\ resp.result = "Ok"
  /\ resp.input = NoUpdate
  /\ \E d \in resp.plans :
       /\ d.travel_plan.name = "Tour"
       /\ d.travel_plan.updated_at > d.travel_plan.created_at
       /\ d.travel_plan \in travel_plans

\* C25: no step changes the user_id of a stored plan, the travel_plan_id of a
\* stored route option or the route_option_id of a stored point of interest;
\* a row that appears carries an id never used before; every stored plan has
\* the user_id recorded at its creation.
C25_LinksImmutable ==
  [][ /\ \A p \in travel_plans, q \in travel_plans' :
           p.id = q.id => p.user_id = q.user_id
      /\ \A r \in route_options, q \in route_options' :
           r.id = q.id => r.travel_plan_id = q.travel_plan_id
      /\ \A x \in points_of_interest, q \in points_of_interest' :
           x.id = q.id => x.route_option_id = q.route_option_id
      /\ \A q \in travel_plans' :
           /\ q.id <= plan_seq'
           /\ (\A p \in travel_plans : p.id # q.id) => q.id > plan_seq
           /\ \E c \in created' : c.id = q.id /\ c.user_id = q.user_id
      /\ \A q \in route_options' :
           /\ q.id <= route_seq'
           /\ (\A r \in route_options : r.id # q.id) => q.id > route_seq
      /\ \A q \in points_of_interest' :
           /\ q.id <= poi_seq'
           /\ (\A x \in points_of_interest : x.id # q.id) => q.id > poi_seq
      /\ created \subseteq created' ]_vars

\* C25 witness: the owner's update rewrote every content field of a plan
\* that has routes and points of interest.
C25_Witness ==
  /\ resp.op = "update_travel_plan"
  /\ resp.result = "Ok"
  /\ \E p \in travel_plans :
       /\ p.id = resp.plan_id
       /\ p.name = "Hike"
       /\ \E r \in route_options :
            /\ r.travel_plan_id = p.id
            /\ PoisOf(points_of_interest, r.id) # {}

\* C26: when two update_travel_plan calls on the same plan have both
\* returned successfully, every field that only one of them specified holds
\* that call's value, and every field both specified holds the value of the
\* one that wrote last.
C26_NoLostUpdate ==
  \A a \in calls, b \in calls, p \in travel_plans, f \in Fields :
    ( /\ a.cid # b.cid
      /\ a.op = "update_travel_plan" /\ b.op = "update_travel_plan"
      /\ a.pc = "done" /\ b.pc = "done"
      /\ a.result = "Ok" /\ b.result = "Ok"
      /\ a.plan_id = p.id /\ b.plan_id = p.id
      /\ a.input[f] # None )
    => IF b.input[f] = None THEN p[f] = a.input[f]
       ELSE a.at > b.at => p[f] = a.input[f]

\* a call reports that it removed the row it named
ReportsRemoved(c) ==
  /\ c.result = "Ok"
  /\ c.op = "delete_route_option" => c.n > 0

\* C27: when two delete_travel_plan calls, or two delete_route_option calls,
\* by the owner on the same id have both returned and the row was there for
\* the first of them, each ended with success or a not-found outcome, exactly
\* one of them reports that it removed the row, and the row is gone.
C27_ConcurrentDeletes ==
  \A a \in calls, b \in calls :
    ( /\ a.cid # b.cid
      /\ a.op = b.op
      /\ a.op \in {"delete_travel_plan", "delete_route_option"}
      /\ a.plan_id = b.plan_id /\ a.route_id = b.route_id
      /\ a.caller = b.caller
      /\ \E c \in created : c.id = a.plan_id /\ c.user_id = a.caller
      /\ a.pc = "done" /\ b.pc = "done"
      /\ a.at > 0 )
    => /\ a.result \in {"Ok", "NotFound", "RouteNotFound"}
       /\ b.result \in {"Ok", "NotFound", "RouteNotFound"}
       /\ ReportsRemoved(a) # ReportsRemoved(b)
       /\ a.op = "delete_travel_plan" => TravelPlan_find_by_id(a.plan_id) = {}
       /\ a.op = "delete_route_option" =>
            /\ RouteOption_find_by_id(a.route_id) = {}
            /\ PoisOf(points_of_interest, a.route_id) = {}

\* C28: no two stored users share a username, and of two register calls with
\* the same username that have both returned, one returned the created user
\* and the other failed with UsernameTaken.
C28_ConcurrentRegister ==
  /\ \A u \in users, v \in users : u.username = v.username => u = v
  /\ \A a \in calls, b \in calls :
       ( /\ a.cid # b.cid
         /\ a.op = "register" /\ b.op = "register"
         /\ a.input.username = b.input.username
         /\ a.pc = "done" /\ b.pc = "done" )
       => {a.result, b.result} = {"Ok", "UsernameTaken"}

\* C29: every stored route option's travel_plan_id names a stored travel
\* plan and every stored point of interest's route_option_id names a stored
\* route option.
C29_ReferentialIntegrity ==
  /\ \A r \in route_options : TravelPlan_find_by_id(r.travel_plan_id) # {}
  /\ \A q \in points_of_interest :
       RouteOption_find_by_id(q.route_option_id) # {}

\* C30: a plan or route operation that returns NotFound, Unauthorized,
\* RouteNotFound or InvalidRouteOption, and every read operation
\* (get_travel_plans, get_travel_plan_by_id, get_route_options,
\* get_route_option_by_id), leaves the stored users, plans, route options
\* and points of interest as they were before the call.
ReadOps == {"get_travel_plans", "get_travel_plan_by_id", "get_route_options",
            "get_route_option_by_id"}
Rejections == {"NotFound", "Unauthorized", "RouteNotFound",
               "InvalidRouteOption", "TravelPlanError(NotFound)",
               "TravelPlanError(Unauthorized)"}
C30_RejectedAndReadFrame ==
  [][(resp'.op \in ReadOps \/ resp'.result \in Rejections)
       => (tables' = tables /\ users' = users)]_vars
C30_Witness ==
  /\ resp.op = "delete_route_option"
  /\ resp.result = "InvalidRouteOption"
  /\ travel_plans # {} /\ route_options # {} /\ points_of_interest # {}
====
